---- MODULE Spec2Model ----
(***************************************************************************)
(* Model of the key-object registry of cryptodev-linux (src/ncr-key.c).   *)
(*                                                                         *)
(* Concurrent callers (ioctl threads) operate on one key list (lst), one  *)
(* data list and one owner (filp).  Code that runs with lst->sem held is  *)
(* one atomic action; code that runs on a borrowed item outside the       *)
(* semaphore is split at every read or write of shared memory.            *)
(***************************************************************************)
EXTENDS Integers, Sequences, FiniteSets, TLC

(* ------------------------------ bounds -------------------------------- *)

\* number of ioctl calls concurrent callers issue in one run
MaxOps == 3
\* number of ioctl calls a single caller issues in one run
MaxSeqOps == 4
\* number of key_item objects kmalloc can hand out in one run
MaxItems == 3
\* size of key.secret.data (ncr_int.h), scaled down
MAX_KEY_SIZE == 2

(* ----------------------------- constants ------------------------------ *)

\* size of key_item.key_id (ncr.h); generate writes 5 bytes into it
MAX_KEY_ID_SIZE == 5
\* per-owner limit on live keys of the resource limiter (ncr-limits.c)
MaxKeysLimit == 2

Threads == {"t1", "t2"}
Slots == 1..MaxItems
NULL == 0
Byte == {0, 1}

EINVAL == "-EINVAL"
ENOMEM == "-ENOMEM"
ELIMIT == "-EPERM"
OK == "0"

NCR_KEY_TYPE_INVALID == "NCR_KEY_TYPE_INVALID"
NCR_KEY_TYPE_SECRET == "NCR_KEY_TYPE_SECRET"
NCR_KEY_TYPE_PUBLIC == "NCR_KEY_TYPE_PUBLIC"
NCR_KEY_TYPE_PRIVATE == "NCR_KEY_TYPE_PRIVATE"

NCR_ALG_NONE == "NCR_ALG_NONE"
NCR_ALG_AES_CBC == "NCR_ALG_AES_CBC"
NCR_ALG_3DES_CBC == "NCR_ALG_3DES_CBC"
NCR_ALG_RSA == "NCR_ALG_RSA"

NCR_KEY_FLAG_EXPORTABLE == "NCR_KEY_FLAG_EXPORTABLE"
NCR_KEY_FLAG_WRAPPABLE == "NCR_KEY_FLAG_WRAPPABLE"
NCR_DATA_FLAG_EXPORTABLE == "NCR_DATA_FLAG_EXPORTABLE"

\* the Algorithm Catalog: algorithm identifier -> key type
ncr_algorithm_to_key_type(alg) ==
    CASE alg = NCR_ALG_AES_CBC -> NCR_KEY_TYPE_SECRET
      [] alg = NCR_ALG_3DES_CBC -> NCR_KEY_TYPE_SECRET
      [] alg = NCR_ALG_RSA -> NCR_KEY_TYPE_PUBLIC
      [] OTHER -> NCR_KEY_TYPE_INVALID

Zeros(n) == [i \in 1..n |-> 0]

\* memcpy(dst, src, n): the first n bytes of dst are overwritten from src; a
\* copy longer than dst stops at the end of dst here and is recorded in oob
memcpy(dst, src, n) ==
    [i \in 1..Len(dst) |-> IF i <= n /\ i <= Len(src) THEN src[i] ELSE dst[i]]

\* get_random_bytes(buf, n): n bytes of buf are replaced by one of the draws
RandomDraws(rand, n) == {[i \in 1..n |-> b] : b \in rand}

Max(a, b) == IF a >= b THEN a ELSE b

\* what a copy of n bytes into an object of kind obj with room for cap bytes
\* adds to oob
Past(obj, n, cap) == IF n > cap THEN {obj} ELSE {}

(* ------------------------------- state -------------------------------- *)

VARIABLES
    keys,       \* slot -> the key_item object kmalloc placed there
    lst,        \* lst->list: the slots linked in the registry, head first
    limit_cnt,  \* the limiter's count of keys of the owner (filp)
    dstore,     \* data descriptor -> data_item of the data list
    pc,         \* thread -> position in the ioctl it is running
    call,       \* thread -> the request structure of the call it is in
    item,       \* thread -> slot of the key_item it borrowed (local 'item')
    ditem,      \* thread -> descriptor of the data_item it borrowed
    loc,        \* thread -> values it read into locals/registers
    ret,        \* thread -> return value of its last completed call
    uarg,       \* thread -> what the call left in the user's arg structure
    pre,        \* thread -> the items as they were when the call borrowed them
    issued,     \* handles ncr_key_init returned since the last removal
    removes,    \* ncr_key_deinit / ncr_key_list_deinit calls so far
    nops,       \* calls issued so far
    oob         \* the kinds of object some copy wrote past the end of

vars == <<keys, lst, limit_cnt, dstore, pc, call, item, ditem, loc, ret, uarg,
          pre, issued, removes, nops, oob>>

kvars == <<keys, lst, limit_cnt>>
tvars == <<item, ditem, loc, pre>>
gvars == <<issued, removes>>

(* --------------------------- domains of inputs ------------------------ *)

DataIds == {1, 2}
\* descriptors a caller may pass: the ones allocate can return and one more
DescValues == 1..(MaxItems + 1)
\* a descriptor no data item has
NoData == Cardinality(DataIds) + 1
KeyFlagValues == {{NCR_KEY_FLAG_WRAPPABLE}, {NCR_KEY_FLAG_EXPORTABLE}}
GoodBits == {0, 8, 8 * MAX_KEY_SIZE}
BadBits == {12, 8 * (MAX_KEY_SIZE + 1)}
ShortKeyId == <<1, 0>>
LongKeyId == [i \in 1..(MAX_KEY_ID_SIZE + 1) |-> 1]

UNSET == "unset"
\* what a read of freed memory may give instead of the value stored there
GARBAGE == NULL - 1

NoCall == [op |-> "none", desc |-> NULL, data |-> NULL, type |-> UNSET,
           algorithm |-> UNSET, flags |-> {}, bits |-> 0, key_id |-> <<>>]
\* the info structure of ncr_key_info before the handler fills it
NoInfo == [flags |-> UNSET, type |-> UNSET, algorithm |-> UNSET]
NoLoc == [key |-> NULL, type |-> UNSET, size |-> 0, ret |-> OK, info |-> NoInfo,
          epoch |-> 0]
\* nothing borrowed yet
NoPre == [key |-> NULL, refcnt |-> 0, data |-> NULL]
\* the user's arg structure before a call writes to it
NoArg == [desc |-> NULL, info |-> NoInfo]

(* ------------------------------ key items ----------------------------- *)

\* a slot kmalloc has not handed out
NoKey == [st |-> "unused", desc |-> 0, refcnt |-> 0,
          type |-> NCR_KEY_TYPE_INVALID, algorithm |-> NCR_ALG_NONE,
          flags |-> {}, data |-> Zeros(MAX_KEY_SIZE), size |-> 0,
          key_id |-> Zeros(MAX_KEY_ID_SIZE), key_id_size |-> 0, frees |-> 0,
          by |-> NoCall, src |-> <<>>, keyed |-> FALSE, noexp |-> FALSE]

\* mutant: the count the memset left is kept
NewKey_unset == [NoKey EXCEPT !.st = "live"]

\* ncr_key_init: kmalloc, memset(key, 0, sizeof(*key)), atomic_set(refcnt, 1)
NewKey == [NoKey EXCEPT !.st = "live", !.refcnt = 1]

\* the persisted fields of a key item
Fields(k) == [type |-> k.type, algorithm |-> k.algorithm, flags |-> k.flags,
              data |-> k.data, size |-> k.size, key_id |-> k.key_id,
              key_id_size |-> k.key_id_size]

Linked(k) == \E i \in 1..Len(lst) : lst[i] = k

RECURSIVE MaxDesc(_, _, _)
\* the loop of _ncr_key_get_new_desc over the first n list entries
MaxDesc(ks, l, n) ==
    IF n = 0 THEN 0 ELSE Max(MaxDesc(ks, l, n - 1), ks[l[n]].desc)

\* mutants: mx++ forgotten; the number of entries instead of the maximum
_ncr_key_get_new_desc_noinc(ks, l) == MaxDesc(ks, l, Len(l))
_ncr_key_get_new_desc_count(ks, l) == Len(l) + 1

_ncr_key_get_new_desc(ks, l) == MaxDesc(ks, l, Len(l)) + 1

RECURSIVE Find(_, _, _, _)
\* list_for_each_entry: the first entry from position i on whose desc matches
Find(ks, l, desc, i) ==
    IF i > Len(l) THEN NULL
    ELSE IF ks[l[i]].desc = desc THEN l[i]
    ELSE Find(ks, l, desc, i + 1)

\* the scan of ncr_key_item_get / ncr_key_deinit
FindKey(ks, l, desc) == Find(ks, l, desc, 1)

\* mutant: the lookup takes no reference
ncr_key_item_get_noref(ks, k) == ks

\* atomic_inc(&item->refcnt) of ncr_key_item_get
ncr_key_item_get(ks, k) == [ks EXCEPT ![k].refcnt = @ + 1]

atomic_dec_and_test(v) == v - 1 = 0

\* mutant: the put releases nothing
_ncr_key_item_put_noop(s, k) == s

\* _ncr_key_item_put on the pair (key items, limiter count)
_ncr_key_item_put(s, k) ==
    IF atomic_dec_and_test(s.keys[k].refcnt)
    THEN [keys |-> [s.keys EXCEPT ![k].refcnt = @ - 1, ![k].st = "freed",
                                  ![k].frees = @ + 1],
          cnt |-> s.cnt - 1]
    ELSE [keys |-> [s.keys EXCEPT ![k].refcnt = @ - 1], cnt |-> s.cnt]

\* mutant: the head of the list is unlinked instead of the item found
list_del_head(l, k) == Tail(l)

\* list_del(&item->list)
list_del(l, k) == SelectSeq(l, LAMBDA x : x # k)

\* mutant: the loop unlinks the items without putting them
PutAll_skip(s, l, n) == s

RECURSIVE PutAll(_, _, _)
\* the loop of ncr_key_list_deinit: one put per linked item
PutAll(s, l, n) ==
    IF n = 0 THEN s ELSE _ncr_key_item_put(PutAll(s, l, n - 1), l[n])

(* ------------------------------ call frame ---------------------------- *)

\* what surrounds the handlers in a run: how many calls the callers issue, the
\* requests they pass to generate, export and import, and the bytes the
\* random generator gives
Env(max, gen, exp, imp, rand, snap) ==
    [max |-> max, gen |-> gen, exp |-> exp, imp |-> imp, rand |-> rand,
     snap |-> snap]

\* the state a call found, kept for the claims about what the call did to it
Snap(e, p) == IF e.snap THEN p ELSE NoPre

\* a caller enters an ioctl
Begin(t, e) ==
    /\ pc[t] = "idle"
    /\ nops < e.max
    /\ nops' = nops + 1

\* inside an ioctl
Step(t, at) ==
    /\ pc[t] = at
    /\ UNCHANGED nops

\* copy_from_user: the handler has its request c and goes on at 'to'
Enter(t, c, to) ==
    /\ pc' = [pc EXCEPT ![t] = to]
    /\ call' = [call EXCEPT ![t] = c]
    /\ ret' = [ret EXCEPT ![t] = "running"]

Goto(t, to) == pc' = [pc EXCEPT ![t] = to] /\ UNCHANGED <<call, ret>>

\* the handler returns r: its request and locals are gone
Leave(t, op, r) ==
    /\ pc' = [pc EXCEPT ![t] = "idle"]
    /\ ret' = [ret EXCEPT ![t] = r]
    /\ call' = [call EXCEPT ![t] = [NoCall EXCEPT !.op = op]]
    /\ loc' = [loc EXCEPT ![t] = NoLoc]
    /\ pre' = [pre EXCEPT ![t] = NoPre]

Return(t, r) == Leave(t, call[t].op, r)

(* ----------------------------- ncr_key_init --------------------------- *)

\* ncr_limits_add_and_check(filp, LIMIT_TYPE_KEY)
KeyInitAdmit(t, e) ==
    /\ Begin(t, e)
    /\ uarg' = [uarg EXCEPT ![t] = NoArg]
    /\ IF limit_cnt < MaxKeysLimit
       THEN /\ limit_cnt' = limit_cnt + 1
            /\ Enter(t, [NoCall EXCEPT !.op = "init"], "init_alloc")
            /\ loc' = [loc EXCEPT ![t].epoch = removes]
            /\ UNCHANGED pre
       ELSE /\ limit_cnt' = limit_cnt
            /\ Leave(t, "init", ELIMIT)
    /\ UNCHANGED <<keys, lst, dstore, item, ditem, gvars, oob>>

\* kmalloc fails: return -ENOMEM
KeyInitNoMem(t) ==
    /\ Step(t, "init_alloc")
    /\ Return(t, ENOMEM)
    /\ UNCHANGED <<kvars, dstore, item, ditem, uarg, gvars, oob>>

\* kmalloc succeeds; under lst->sem the key gets its desc and is linked
KeyInitLink(t) ==
    /\ Step(t, "init_alloc")
    /\ \E k \in Slots :
        /\ keys[k].st = "unused"
        /\ \A j \in Slots : j < k => keys[j].st # "unused"
        /\ keys' = [keys EXCEPT
                      ![k] = [NewKey EXCEPT !.desc = _ncr_key_get_new_desc(keys, lst)]]
        /\ lst' = <<k>> \o lst
        /\ loc' = [loc EXCEPT ![t].key = k]
    /\ Goto(t, "init_ret")
    /\ UNCHANGED <<limit_cnt, dstore, item, ditem, pre, uarg, gvars, oob>>

\* desc = key->desc; copy_to_user(arg, &desc): the key is read after the
\* semaphore was released, so it may have been freed by then
KeyInitRet(t) ==
    /\ Step(t, "init_ret")
    /\ \E d \in {keys[loc[t].key].desc} \cup
                (IF keys[loc[t].key].st = "freed" THEN {GARBAGE} ELSE {}) :
        /\ uarg' = [uarg EXCEPT ![t].desc = d]
        /\ issued' = IF loc[t].epoch = removes THEN Append(issued, d) ELSE issued
    /\ Return(t, OK)
    /\ UNCHANGED <<kvars, dstore, item, ditem, removes, oob>>

(* ---------------------------- ncr_key_deinit -------------------------- *)

KeyDeinit(t, e) ==
    \E desc \in DescValues :
        /\ Begin(t, e)
        /\ LET k == FindKey(keys, lst, desc)
               s == _ncr_key_item_put([keys |-> keys, cnt |-> limit_cnt], k)
           IN IF k = NULL
              THEN UNCHANGED kvars
              ELSE /\ lst' = list_del(lst, k)
                   /\ keys' = s.keys
                   /\ limit_cnt' = s.cnt
        /\ Leave(t, "deinit", OK)
        /\ uarg' = [uarg EXCEPT ![t] = [NoArg EXCEPT !.desc = desc]]
        /\ issued' = <<>>
        /\ removes' = removes + 1
        /\ UNCHANGED <<dstore, item, ditem, oob>>

(* -------------------------- ncr_key_list_deinit ----------------------- *)

KeyListDeinit(t, e) ==
    /\ Begin(t, e)
    /\ LET s == PutAll([keys |-> keys, cnt |-> limit_cnt], lst, Len(lst))
       IN /\ keys' = s.keys
          /\ limit_cnt' = s.cnt
          /\ lst' = <<>>
    /\ Leave(t, "list_deinit", OK)
    /\ uarg' = [uarg EXCEPT ![t] = NoArg]
    /\ issued' = <<>>
    /\ removes' = removes + 1
    /\ UNCHANGED <<dstore, item, ditem, oob>>

(* ------------------------------ data items ---------------------------- *)

\* a data_item of the data list with capacity cap holding n bytes; 'noexp'
\* says that its bytes were copied from a key item of which 'noexp' held
DataItem(cap, n, flags) ==
    [max_data_size |-> cap, data |-> [i \in 1..cap |-> IF i <= n THEN 1 ELSE 0],
     data_size |-> n, flags |-> flags, refcnt |-> 1, noexp |-> FALSE]

\* the byte string a data item holds
Held(d) == [i \in 1..d.data_size |-> d.data[i]]

\* ncr_data_item_get: the data item with descriptor desc, or NULL
FindData(desc) == IF desc \in DataIds THEN desc ELSE NULL

\* the reference ncr_data_item_get takes
ncr_data_item_get(ds, d) == [ds EXCEPT ![d].refcnt = @ + 1]

\* _ncr_data_item_put: the data items of this model are never removed from
\* the data list, so the count does not reach 0
_ncr_data_item_put(ds, d) == [ds EXCEPT ![d].refcnt = @ - 1]

(* ------------------- borrowing and releasing (shared) ----------------- *)

\* copy_from_user; item = ncr_key_item_get(key_lst, desc);
\* if (item == NULL) return -EINVAL.  The handler goes on at 'next' with one
\* of the requests of 'args'; a request whose key is not found is not read
\* any further
GetKey(t, e, op, desc, args, next) ==
    LET k == FindKey(keys, lst, desc)
    IN /\ Begin(t, e)
       /\ uarg' = [uarg EXCEPT ![t] = NoArg]
       /\ IF k = NULL
          THEN /\ Leave(t, op, EINVAL)
               /\ UNCHANGED <<keys, item>>
          ELSE /\ \E c \in args :
                    Enter(t, [c EXCEPT !.op = op, !.desc = desc], next)
               /\ keys' = ncr_key_item_get(keys, k)
               /\ item' = [item EXCEPT ![t] = k]
               /\ pre' = [pre EXCEPT ![t] = Snap(e, [key |-> Fields(keys[k]),
                                                    refcnt |-> keys[k].refcnt,
                                                    data |-> NULL])]
               /\ loc' = [loc EXCEPT ![t] = NoLoc]
       /\ UNCHANGED <<lst, limit_cnt, dstore, ditem, gvars, oob>>

\* goto fail with ret = -EINVAL
Fail(t) == /\ loc' = [loc EXCEPT ![t].ret = EINVAL]
           /\ Goto(t, "put_item")

\* ditem = ncr_data_item_get(data_lst, data.data); if (ditem == NULL) goto fail
GetData(t, e, at, next) ==
    /\ Step(t, at)
    /\ LET d == FindData(call[t].data)
       IN IF d = NULL
          THEN /\ Fail(t)
               /\ UNCHANGED <<dstore, ditem, pre>>
          ELSE /\ dstore' = ncr_data_item_get(dstore, d)
               /\ ditem' = [ditem EXCEPT ![t] = d]
               /\ pre' = [pre EXCEPT ![t] = Snap(e, [@ EXCEPT !.data = dstore[d]])]
               /\ Goto(t, next)
               /\ UNCHANGED loc
    /\ UNCHANGED <<kvars, item, uarg, gvars, oob>>

\* _ncr_key_item_put(item) on the way out (success or fail:); returns when
\* no data item is held
PutItem(t) ==
    /\ Step(t, "put_item")
    /\ LET s == _ncr_key_item_put([keys |-> keys, cnt |-> limit_cnt], item[t])
       IN keys' = s.keys /\ limit_cnt' = s.cnt
    /\ item' = [item EXCEPT ![t] = NULL]
    /\ IF ditem[t] = NULL
       THEN Return(t, loc[t].ret)
       ELSE Goto(t, "put_ditem") /\ UNCHANGED <<loc, pre>>
    /\ UNCHANGED <<lst, dstore, ditem, uarg, gvars, oob>>

\* _ncr_data_item_put(ditem); return
PutDitem(t) ==
    /\ Step(t, "put_ditem")
    /\ dstore' = _ncr_data_item_put(dstore, ditem[t])
    /\ ditem' = [ditem EXCEPT ![t] = NULL]
    /\ Return(t, loc[t].ret)
    /\ UNCHANGED <<kvars, item, uarg, gvars, oob>>

\* a value read again from shared memory, or the one kept in a register
Reread(cached, current) == {cached, current}

\* a store of the field values w into the key item a thread borrowed; 'by'
\* is the request that left the item populated when the store completes it,
\* 'src' the bytes an import took from its data item, 'keyed' says that
\* some generate or import has completed on the item, and 'noexp' that the
\* call which completed on the material the item holds left the item not
\* exportable
Store(t, w, done) ==
    keys' = [keys EXCEPT ![item[t]] =
               [f \in DOMAIN @ |->
                  IF f \in DOMAIN w THEN w[f]
                  ELSE IF f = "by" THEN (IF done THEN call[t] ELSE NoCall)
                  ELSE IF f = "src" THEN <<>>
                  ELSE IF f = "keyed" THEN (@[f] \/ done)
                  ELSE IF f = "noexp" THEN (@[f] /\ "data" \notin DOMAIN w)
                  ELSE @[f]]]

\* a store into the data item a thread borrowed
DStore(t, w) ==
    dstore' = [dstore EXCEPT ![ditem[t]] =
                 [f \in DOMAIN @ |-> IF f \in DOMAIN w THEN w[f] ELSE @[f]]]

(* --------------------------- ncr_key_generate ------------------------- *)

\* the test of lines 330-331 on gen.params.params.secret.bits
\* mutant: the size is not tested
gen_bits_ok_mod(bits) == bits % 8 = 0

\* mutant: size >= MAX_KEY_SIZE rejected
gen_bits_ok_strict(bits) == bits % 8 = 0 /\ bits \div 8 < MAX_KEY_SIZE

gen_bits_ok(bits) == bits % 8 = 0 /\ bits \div 8 <= MAX_KEY_SIZE

\* the algorithm ncr_key_generate stores in the item (line 327)
gen_algorithm(alg) == NCR_ALG_AES_CBC

\* a request of ncr_key_generate
GenReq(a, b, fl) == [NoCall EXCEPT !.algorithm = a, !.bits = b, !.flags = fl]

\* the requests: valid ones that cover every value of each field, and each
\* way of being invalid
GenArgs ==
    {GenReq(NCR_ALG_3DES_CBC, b, {NCR_KEY_FLAG_EXPORTABLE}) : b \in GoodBits}
    \cup {GenReq(NCR_ALG_AES_CBC, b, {NCR_KEY_FLAG_WRAPPABLE}) : b \in GoodBits \ {0}}
    \cup {GenReq(NCR_ALG_RSA, 8, {NCR_KEY_FLAG_EXPORTABLE})}
    \cup {GenReq(NCR_ALG_AES_CBC, b, {NCR_KEY_FLAG_EXPORTABLE}) : b \in BadBits}

GenGet(t, e) ==
    \E desc \in DescValues : GetKey(t, e, "generate", desc, e.gen, "gen_type")

\* item->type = ncr_algorithm_to_key_type(gen.params.algorithm)
GenType(t) ==
    /\ Step(t, "gen_type")
    /\ LET ty == ncr_algorithm_to_key_type(call[t].algorithm)
       IN /\ Store(t, [type |-> ty], FALSE)
          /\ loc' = [loc EXCEPT ![t].type = ty]
    /\ Goto(t, "gen_typechk")
    /\ UNCHANGED <<lst, limit_cnt, dstore, item, ditem, pre, uarg, gvars, oob>>

\* if (item->type != NCR_KEY_TYPE_SECRET) goto fail
GenTypeChk(t) ==
    /\ Step(t, "gen_typechk")
    /\ \E ty \in Reread(loc[t].type, keys[item[t]].type) :
        IF ty # NCR_KEY_TYPE_SECRET
        THEN Fail(t)
        ELSE Goto(t, "gen_flags") /\ UNCHANGED loc
    /\ UNCHANGED <<kvars, dstore, item, ditem, pre, uarg, gvars, oob>>

\* item->flags = gen.params.keyflags
GenFlags(t) ==
    /\ Step(t, "gen_flags")
    /\ Store(t, [flags |-> call[t].flags], FALSE)
    /\ Goto(t, "gen_alg")
    /\ UNCHANGED <<lst, limit_cnt, dstore, tvars, uarg, gvars, oob>>

\* item->algorithm = NCR_ALG_AES_CBC; size = bits/8; the bits checks
GenAlg(t) ==
    /\ Step(t, "gen_alg")
    /\ Store(t, [algorithm |-> gen_algorithm(call[t].algorithm)], FALSE)
    /\ IF gen_bits_ok(call[t].bits)
       THEN /\ loc' = [loc EXCEPT ![t].size = call[t].bits \div 8]
            /\ Goto(t, "gen_data")
       ELSE Fail(t)
    /\ UNCHANGED <<lst, limit_cnt, dstore, item, ditem, pre, uarg, gvars, oob>>

\* get_random_bytes(item->key.secret.data, size)
GenData(t, e) ==
    /\ Step(t, "gen_data")
    /\ \E r \in RandomDraws(e.rand, loc[t].size) :
        Store(t, [data |-> memcpy(keys[item[t]].data, r, loc[t].size)], FALSE)
    /\ oob' = oob \cup Past("key", loc[t].size, MAX_KEY_SIZE)
    /\ Goto(t, "gen_size")
    /\ UNCHANGED <<lst, limit_cnt, dstore, tvars, uarg, gvars>>

\* item->key.secret.size = size
GenSize(t) ==
    /\ Step(t, "gen_size")
    /\ Store(t, [size |-> loc[t].size], FALSE)
    /\ Goto(t, "gen_idsize")
    /\ UNCHANGED <<lst, limit_cnt, dstore, tvars, uarg, gvars, oob>>

\* item->key_id_size = 5
GenIdSize(t) ==
    /\ Step(t, "gen_idsize")
    /\ Store(t, [key_id_size |-> 5], FALSE)
    /\ Goto(t, "gen_id")
    /\ UNCHANGED <<lst, limit_cnt, dstore, tvars, uarg, gvars, oob>>

\* get_random_bytes(item->key_id, item->key_id_size); the success exit
GenId(t, e) ==
    /\ Step(t, "gen_id")
    /\ \E n \in Reread(5, keys[item[t]].key_id_size) :
        /\ \E r \in RandomDraws(e.rand, n) :
            Store(t, [key_id |-> memcpy(keys[item[t]].key_id, r, n),
                      noexp |-> NCR_KEY_FLAG_EXPORTABLE \notin keys[item[t]].flags],
                  TRUE)
        /\ oob' = oob \cup Past("key", n, MAX_KEY_ID_SIZE)
    /\ Goto(t, "put_item")
    /\ UNCHANGED <<lst, limit_cnt, dstore, tvars, uarg, gvars>>

(* ----------------------------- ncr_key_info --------------------------- *)

InfoGet(t, e) ==
    \E desc \in DescValues : GetKey(t, e, "info", desc, {NoCall}, "info_read")

\* info.flags = item->flags; info.type = item->type; info.algorithm = ...
\* into the local copy of the request; nothing is copied back to the user
InfoRead(t) ==
    /\ Step(t, "info_read")
    /\ loc' = [loc EXCEPT ![t].info = [flags |-> keys[item[t]].flags,
                                        type |-> keys[item[t]].type,
                                        algorithm |-> keys[item[t]].algorithm]]
    /\ Goto(t, "put_item")
    /\ UNCHANGED <<kvars, dstore, item, ditem, pre, uarg, gvars, oob>>

(* ------------------------ the unimplemented calls --------------------- *)

\* mutant: the call reports success
Stub_ok(t, e, op) ==
    /\ Begin(t, e)
    /\ Leave(t, op, OK)
    /\ UNCHANGED <<kvars, dstore, item, ditem, uarg, gvars, oob>>

\* return -EINVAL
Stub(t, e, op) ==
    /\ Begin(t, e)
    /\ Leave(t, op, EINVAL)
    /\ UNCHANGED <<kvars, dstore, item, ditem, uarg, gvars, oob>>

KeyGeneratePair(t, e) == Stub(t, e, "generate_pair")
KeyDerive(t, e) == Stub(t, e, "derive")
KeyGetPublic(t, e) == Stub(t, e, "get_public")

(* ---------------------------- ncr_key_export -------------------------- *)

\* the size test of line 184
\* mutant: a key that fills the data item exactly is rejected
export_fits_strict(size, max_data_size) == size < max_data_size

export_fits(size, max_data_size) == ~(size > max_data_size)

\* mutant: the data item is marked exportable whatever the key says
export_flags_always(kflags) == {NCR_DATA_FLAG_EXPORTABLE}

\* lines 191-194: ditem->flags from the key's flags
export_flags(kflags) ==
    IF NCR_KEY_FLAG_EXPORTABLE \in kflags THEN {NCR_DATA_FLAG_EXPORTABLE} ELSE {}

ExpArgs == {[NoCall EXCEPT !.data = d] : d \in DataIds \cup {NoData}}

ExpGet(t, e) ==
    \E desc \in DescValues : GetKey(t, e, "export", desc, e.exp, "exp_getdata")

ExpGetData(t, e) == GetData(t, e, "exp_getdata", "exp_switch")

\* switch (item->type)
ExpSwitch(t) ==
    /\ Step(t, "exp_switch")
    /\ IF keys[item[t]].type = NCR_KEY_TYPE_SECRET
       THEN Goto(t, "exp_szchk") /\ UNCHANGED loc
       ELSE Fail(t)
    /\ UNCHANGED <<kvars, dstore, item, ditem, pre, uarg, gvars, oob>>

\* if (item->key.secret.size > ditem->max_data_size) goto fail
ExpSzChk(t) ==
    /\ Step(t, "exp_szchk")
    /\ IF export_fits(keys[item[t]].size, dstore[ditem[t]].max_data_size)
       THEN /\ loc' = [loc EXCEPT ![t].size = keys[item[t]].size]
            /\ Goto(t, "exp_flags0")
       ELSE Fail(t)
    /\ UNCHANGED <<kvars, dstore, item, ditem, pre, uarg, gvars, oob>>

\* ditem->flags = 0
ExpFlags0(t) ==
    /\ Step(t, "exp_flags0")
    /\ DStore(t, [flags |-> {}])
    /\ Goto(t, "exp_flags")
    /\ UNCHANGED <<kvars, tvars, uarg, gvars, oob>>

\* if (item->flags & NCR_KEY_FLAG_EXPORTABLE) ditem->flags |= ...
ExpFlags(t) ==
    /\ Step(t, "exp_flags")
    /\ DStore(t, [flags |-> dstore[ditem[t]].flags
                             \cup export_flags(keys[item[t]].flags)])
    /\ Goto(t, "exp_cpy")
    /\ UNCHANGED <<kvars, tvars, uarg, gvars, oob>>

\* if (size > 0) memcpy(ditem->data, item->key.secret.data, size)
ExpCpy(t) ==
    /\ Step(t, "exp_cpy")
    /\ \E n \in Reread(loc[t].size, keys[item[t]].size) :
        /\ DStore(t, [data |-> memcpy(dstore[ditem[t]].data, keys[item[t]].data, n),
                      noexp |-> IF n > 0 THEN keys[item[t]].noexp
                                ELSE dstore[ditem[t]].noexp])
        /\ oob' = oob \cup Past("data", n, dstore[ditem[t]].max_data_size)
    /\ Goto(t, "exp_size")
    /\ UNCHANGED <<kvars, tvars, uarg, gvars>>

\* ditem->data_size = item->key.secret.size; the success exit
ExpSize(t) ==
    /\ Step(t, "exp_size")
    /\ \E n \in Reread(loc[t].size, keys[item[t]].size) :
        DStore(t, [data_size |-> n])
    /\ Goto(t, "put_item")
    /\ UNCHANGED <<kvars, tvars, uarg, gvars, oob>>

(* ---------------------------- ncr_key_import -------------------------- *)

\* mutant: the flag follows the data item in both directions
import_flags_override(argflags, dflags) ==
    IF NCR_DATA_FLAG_EXPORTABLE \in dflags
    THEN argflags \cup {NCR_KEY_FLAG_EXPORTABLE}
    ELSE argflags \ {NCR_KEY_FLAG_EXPORTABLE}

\* lines 251-256: the flags the key gets from data.flags and ditem->flags
import_flags(argflags, dflags) ==
    IF NCR_DATA_FLAG_EXPORTABLE \in dflags
    THEN argflags \cup {NCR_KEY_FLAG_EXPORTABLE}
    ELSE argflags

import_id_ok(key_id_size) == ~(key_id_size > MAX_KEY_ID_SIZE)
import_size_ok(data_size) == ~(data_size > MAX_KEY_SIZE)

\* a request of ncr_key_import
ImpReq(d, ty, alg, fl, id) ==
    [NoCall EXCEPT !.data = d, !.type = ty, !.algorithm = alg, !.flags = fl,
                   !.key_id = id]

\* the requests: valid ones that cover every value of each field, and each
\* way of being invalid
ImpArgs ==
    {ImpReq(d, NCR_KEY_TYPE_SECRET, NCR_ALG_3DES_CBC, {NCR_KEY_FLAG_EXPORTABLE},
            ShortKeyId) : d \in DataIds}
    \cup {ImpReq(d, NCR_KEY_TYPE_SECRET, NCR_ALG_AES_CBC, {NCR_KEY_FLAG_WRAPPABLE},
                 <<>>) : d \in DataIds}
    \cup {ImpReq(NoData, NCR_KEY_TYPE_SECRET, NCR_ALG_3DES_CBC,
                 {NCR_KEY_FLAG_EXPORTABLE}, ShortKeyId)}
    \cup {ImpReq(d, NCR_KEY_TYPE_PUBLIC, NCR_ALG_RSA,
                 {NCR_KEY_FLAG_EXPORTABLE}, ShortKeyId) : d \in DataIds}
    \cup {ImpReq(d, NCR_KEY_TYPE_SECRET, NCR_ALG_3DES_CBC,
                 {NCR_KEY_FLAG_EXPORTABLE}, LongKeyId) : d \in DataIds}

ImpGet(t, e) ==
    \E desc \in DescValues : GetKey(t, e, "import", desc, e.imp, "imp_getdata")

ImpGetData(t, e) == GetData(t, e, "imp_getdata", "imp_type")

\* item->type = data.type
ImpType(t) ==
    /\ Step(t, "imp_type")
    /\ Store(t, [type |-> call[t].type], FALSE)
    /\ Goto(t, "imp_alg")
    /\ UNCHANGED <<lst, limit_cnt, dstore, tvars, uarg, gvars, oob>>

\* item->algorithm = data.algorithm
ImpAlg(t) ==
    /\ Step(t, "imp_alg")
    /\ Store(t, [algorithm |-> call[t].algorithm], FALSE)
    /\ Goto(t, "imp_flags")
    /\ UNCHANGED <<lst, limit_cnt, dstore, tvars, uarg, gvars, oob>>

\* item->flags = data.flags
ImpFlags(t) ==
    /\ Step(t, "imp_flags")
    /\ Store(t, [flags |-> call[t].flags], FALSE)
    /\ Goto(t, "imp_exp")
    /\ UNCHANGED <<lst, limit_cnt, dstore, tvars, uarg, gvars, oob>>

\* if (ditem->flags & NCR_DATA_FLAG_EXPORTABLE) item->flags |= ...
ImpExp(t) ==
    /\ Step(t, "imp_exp")
    /\ Store(t, [flags |-> import_flags(keys[item[t]].flags, dstore[ditem[t]].flags)],
             FALSE)
    /\ Goto(t, "imp_switch")
    /\ UNCHANGED <<lst, limit_cnt, dstore, tvars, uarg, gvars, oob>>

\* switch (item->type); if (data.key_id_size > MAX_KEY_ID_SIZE) goto fail
ImpSwitch(t) ==
    /\ Step(t, "imp_switch")
    /\ \E ty \in Reread(call[t].type, keys[item[t]].type) :
        IF ty = NCR_KEY_TYPE_SECRET /\ import_id_ok(Len(call[t].key_id))
        THEN Goto(t, "imp_idsize") /\ UNCHANGED loc
        ELSE Fail(t)
    /\ UNCHANGED <<kvars, dstore, item, ditem, pre, uarg, gvars, oob>>

\* item->key_id_size = data.key_id_size
ImpIdSize(t) ==
    /\ Step(t, "imp_idsize")
    /\ Store(t, [key_id_size |-> Len(call[t].key_id)], FALSE)
    /\ Goto(t, "imp_idcpy")
    /\ UNCHANGED <<lst, limit_cnt, dstore, tvars, uarg, gvars, oob>>

\* if (data.key_id_size > 0) memcpy(item->key_id, data.key_id, ...)
ImpIdCpy(t) ==
    /\ Step(t, "imp_idcpy")
    /\ Store(t, [key_id |-> memcpy(keys[item[t]].key_id, call[t].key_id,
                                  Len(call[t].key_id))], FALSE)
    /\ oob' = oob \cup Past("key", Len(call[t].key_id), MAX_KEY_ID_SIZE)
    /\ Goto(t, "imp_szchk")
    /\ UNCHANGED <<lst, limit_cnt, dstore, tvars, uarg, gvars>>

\* if (ditem->data_size > MAX_KEY_SIZE) goto fail
ImpSzChk(t) ==
    /\ Step(t, "imp_szchk")
    /\ IF import_size_ok(dstore[ditem[t]].data_size)
       THEN /\ loc' = [loc EXCEPT ![t].size = dstore[ditem[t]].data_size]
            /\ Goto(t, "imp_cpy")
       ELSE Fail(t)
    /\ UNCHANGED <<kvars, dstore, item, ditem, pre, uarg, gvars, oob>>

\* memcpy(item->key.secret.data, ditem->data, ditem->data_size)
ImpCpy(t) ==
    /\ Step(t, "imp_cpy")
    /\ \E n \in Reread(loc[t].size, dstore[ditem[t]].data_size) :
        /\ Store(t, [data |-> memcpy(keys[item[t]].data, dstore[ditem[t]].data, n)],
                 FALSE)
        /\ oob' = oob \cup Past("key", n, MAX_KEY_SIZE)
    /\ Goto(t, "imp_size")
    /\ UNCHANGED <<lst, limit_cnt, dstore, tvars, uarg, gvars>>

\* item->key.secret.size = ditem->data_size; the success exit
ImpSize(t) ==
    /\ Step(t, "imp_size")
    /\ \E n \in Reread(loc[t].size, dstore[ditem[t]].data_size) :
        Store(t, [size |-> n, src |-> Held(dstore[ditem[t]]),
                  noexp |-> \/ NCR_KEY_FLAG_EXPORTABLE \notin keys[item[t]].flags
                            \/ dstore[ditem[t]].noexp], TRUE)
    /\ Goto(t, "put_item")
    /\ UNCHANGED <<lst, limit_cnt, dstore, tvars, uarg, gvars, oob>>

(* --------------------------- specifications --------------------------- *)

\* the data list the callers find: a small buffer and one larger than a key
DataInit ==
    {[d \in DataIds |-> IF d = 1 THEN DataItem(1, 1, {})
                        ELSE DataItem(MAX_KEY_SIZE + 1, n, fl)] :
        <<n, fl>> \in {<<MAX_KEY_SIZE, {NCR_DATA_FLAG_EXPORTABLE}>>,
                        <<MAX_KEY_SIZE + 1, {}>>}}

InitCommon ==
    /\ keys = [k \in Slots |-> NoKey]
    /\ lst = <<>>
    /\ limit_cnt = 0
    /\ pc = [t \in Threads |-> "idle"]
    /\ call = [t \in Threads |-> NoCall]
    /\ item = [t \in Threads |-> NULL]
    /\ ditem = [t \in Threads |-> NULL]
    /\ loc = [t \in Threads |-> NoLoc]
    /\ ret = [t \in Threads |-> "none"]
    /\ uarg = [t \in Threads |-> NoArg]
    /\ pre = [t \in Threads |-> NoPre]
    /\ issued = <<>>
    /\ removes = 0
    /\ nops = 0
    /\ oob = {}

\* every step a thread can take; e says what it may call with
Handler(t, e) ==
    \/ KeyInitAdmit(t, e) \/ KeyInitNoMem(t) \/ KeyInitLink(t) \/ KeyInitRet(t)
    \/ KeyDeinit(t, e) \/ KeyListDeinit(t, e)
    \/ PutItem(t) \/ PutDitem(t)
    \/ GenGet(t, e) \/ GenType(t) \/ GenTypeChk(t) \/ GenFlags(t) \/ GenAlg(t)
    \/ GenData(t, e) \/ GenSize(t) \/ GenIdSize(t) \/ GenId(t, e)
    \/ InfoGet(t, e) \/ InfoRead(t)
    \/ KeyGeneratePair(t, e) \/ KeyDerive(t, e) \/ KeyGetPublic(t, e)
    \/ ExpGet(t, e) \/ ExpGetData(t, e) \/ ExpSwitch(t) \/ ExpSzChk(t)
    \/ ExpFlags0(t) \/ ExpFlags(t) \/ ExpCpy(t) \/ ExpSize(t)
    \/ ImpGet(t, e) \/ ImpGetData(t, e) \/ ImpType(t) \/ ImpAlg(t) \/ ImpFlags(t)
    \/ ImpExp(t) \/ ImpSwitch(t) \/ ImpIdSize(t) \/ ImpIdCpy(t)
    \/ ImpSzChk(t) \/ ImpCpy(t) \/ ImpSize(t)

\* the requests of concurrent callers: one valid request per flag value and
\* one that fails, for each call
RaceGenArgs ==
    {[NoCall EXCEPT !.algorithm = NCR_ALG_3DES_CBC, !.bits = 8 * MAX_KEY_SIZE,
                    !.flags = fl] : fl \in KeyFlagValues}
    \cup {[NoCall EXCEPT !.algorithm = NCR_ALG_AES_CBC,
                         !.bits = 8 * (MAX_KEY_SIZE + 1),
                         !.flags = {NCR_KEY_FLAG_EXPORTABLE}]}
RaceExpArgs == {[NoCall EXCEPT !.data = d] : d \in DataIds}
RaceImpArgs ==
    {ImpReq(2, NCR_KEY_TYPE_SECRET, NCR_ALG_3DES_CBC, {NCR_KEY_FLAG_WRAPPABLE},
            ShortKeyId),
     ImpReq(1, NCR_KEY_TYPE_PUBLIC, NCR_ALG_RSA, {NCR_KEY_FLAG_EXPORTABLE},
            ShortKeyId)}

Concurrent == Env(MaxOps, RaceGenArgs, RaceExpArgs, RaceImpArgs, {1}, FALSE)
Single == Env(MaxSeqOps, GenArgs, ExpArgs, ImpArgs, Byte, TRUE)

\* concurrent callers
Init ==
    /\ InitCommon
    /\ dstore = [d \in DataIds |->
                   IF d = 1 THEN DataItem(1, 1, {})
                   ELSE DataItem(MAX_KEY_SIZE + 1, MAX_KEY_SIZE,
                                 {NCR_DATA_FLAG_EXPORTABLE})]
Next == \E t \in Threads : Handler(t, Concurrent)
Spec == Init /\ [][Next]_vars

\* the requests of the callers of the fair specification: one valid request
\* for each call
Draining ==
    Env(MaxOps, {GenReq(NCR_ALG_3DES_CBC, 8 * MAX_KEY_SIZE, {NCR_KEY_FLAG_WRAPPABLE})},
        {[NoCall EXCEPT !.data = 2]},
        {ImpReq(1, NCR_KEY_TYPE_SECRET, NCR_ALG_3DES_CBC, {NCR_KEY_FLAG_WRAPPABLE},
                ShortKeyId)}, {1}, FALSE)
NextFair == \E t \in Threads : Handler(t, Draining)

\* concurrent callers, each of which is scheduled until its ioctl returns: a
\* handler never blocks but on lst->sem, which is always released again
Running(t) == pc[t] # "idle" /\ Handler(t, Draining)
SpecFair == Init /\ [][NextFair]_vars /\ \A t \in Threads : WF_vars(Running(t))

\* one caller: every call runs to completion before the next begins
InitSeq == InitCommon /\ dstore \in DataInit
NextSeq == Handler("t1", Single)
SpecSeq == InitSeq /\ [][NextSeq]_vars

(* ------------------------------- claims ------------------------------- *)

Live(k) == keys[k].st = "live"
Freed(k) == keys[k].st = "freed"
Holders(k) == {t \in Threads : item[t] = k}
Exits(t, op) == pc[t] = "put_item" /\ call[t].op = op
Prefix(b, n) == [i \in 1..n |-> b[i]]
MaxOf(S) == IF S = {} THEN 0 ELSE CHOOSE m \in S : \A x \in S : x <= m

\* C1: under any interleaving of allocate, the lookup-based calls, remove and
\* teardown, a key item is freed if and only if it is unlinked from the
\* registry and its refcount has reached 0; it is never freed while a lookup
\* of it has not been released, and never freed twice.
C1_FreedIffUnlinkedAndUnreferenced ==
    \A k \in Slots :
        keys[k].st # "unused" =>
            /\ Freed(k) <=> (~Linked(k) /\ keys[k].refcnt = 0)
            /\ Freed(k) => Holders(k) = {}
            /\ keys[k].frees <= 1

\* an item removed while a lookup of it is outstanding: unlinked, alive, and
\* held only by the borrower
C1_Witness ==
    \E k \in Slots : Live(k) /\ ~Linked(k) /\ Holders(k) # {} /\ keys[k].refcnt = 1

\* C2: the limiter's counter of the owner equals the number of the owner's
\* key items created and not yet freed, after every outcome of allocate
\* (no allocate being between admission and kmalloc).
C2_LimiterCountsLiveItems ==
    (\A t \in Threads : pc[t] # "init_alloc") =>
        limit_cnt = Cardinality({k \in Slots : Live(k)})

\* C3: the items linked in the registry have pairwise distinct handles, and
\* the handles returned by allocate calls with no remove in between are
\* pairwise distinct.
C3_DistinctHandles ==
    /\ \A i, j \in 1..Len(lst) : i # j => keys[lst[i]].desc # keys[lst[j]].desc
    /\ \A i, j \in 1..Len(issued) : i # j => issued[i] # issued[j]

\* both callers got a handle from ncr_key_init and no remove intervened
C3_Witness ==
    /\ Len(issued) >= 2
    /\ \A t \in Threads : pc[t] = "idle" /\ call[t].op = "init" /\ ret[t] = OK

\* C4: a successful allocate returns max(handles linked) + 1 (1 when the
\* registry is empty) and links the new item with refcount 1; so a handle
\* whose item was removed is returned again when it is max + 1 again.
C4_AllocateReturnsMaxPlusOne ==
    \A t \in Threads :
        /\ pc[t] = "init_ret" =>
              LET k == loc[t].key
                  others == {keys[lst[i]].desc : i \in 2..Len(lst)}
              IN /\ Len(lst) > 0 /\ lst[1] = k
                 /\ keys[k].desc = MaxOf(others) + 1
                 /\ keys[k].refcnt = 1
        /\ (pc[t] = "idle" /\ call[t].op = "init" /\ ret[t] = OK) =>
              /\ Len(lst) > 0
              /\ uarg[t].desc = keys[lst[1]].desc
              /\ uarg[t].desc = MaxOf({keys[lst[i]].desc : i \in 2..Len(lst)}) + 1

\* the highest-numbered item was removed and the next allocate returned its
\* handle again, above a lower one that is still linked
C4_Witness ==
    \E t \in Threads, k \in Slots :
        /\ pc[t] = "idle" /\ call[t].op = "init" /\ ret[t] = OK
        /\ Freed(k) /\ keys[k].desc = uarg[t].desc
        /\ Len(lst) = 2

\* C5: a generate or import call that fails validation with -EINVAL leaves
\* every persisted field of the key item (type, algorithm, flags, material,
\* key_id) exactly as it was before the call.
C5_FailedValidationLeavesKey ==
    \A t \in Threads :
        ((Exits(t, "generate") \/ (Exits(t, "import") /\ ditem[t] # NULL))
         /\ loc[t].ret = EINVAL)
            => Fields(keys[item[t]]) = pre[t].key

\* C6: after generate(H, A, bits, F) succeeded, info(H) reports type Secret,
\* algorithm A and flags F, and the item holds bits/8 bytes of material and a
\* key_id of length 5.
C6_InfoAfterGenerate ==
    \A t \in Threads :
        (Exits(t, "info") /\ keys[item[t]].by.op = "generate") =>
            LET g == keys[item[t]].by
            IN /\ loc[t].info.type = NCR_KEY_TYPE_SECRET
               /\ loc[t].info.algorithm = g.algorithm
               /\ loc[t].info.flags = g.flags
               /\ keys[item[t]].size = g.bits \div 8
               /\ keys[item[t]].key_id_size = 5

\* C7: generate on an allocated handle fails with -EINVAL if and only if the
\* algorithm is not a secret-key algorithm, or bits % 8 # 0, or
\* bits/8 > MAX_KEY_SIZE; in every other case it succeeds.
C7_GenerateFailsIffInvalid ==
    \A t \in Threads :
        Exits(t, "generate") =>
            /\ loc[t].ret \in {OK, EINVAL}
            /\ loc[t].ret = EINVAL <=>
                  \/ ncr_algorithm_to_key_type(call[t].algorithm) # NCR_KEY_TYPE_SECRET
                  \/ call[t].bits % 8 # 0
                  \/ call[t].bits \div 8 > MAX_KEY_SIZE

\* generate of a key of exactly MAX_KEY_SIZE bytes is about to return 0
C7_Witness ==
    \E t \in Threads :
        /\ Exits(t, "generate") /\ loc[t].ret = OK
        /\ call[t].bits = 8 * MAX_KEY_SIZE
        /\ keys[item[t]].size = MAX_KEY_SIZE

\* C8: export(H, D) on an existing key and data item fails with -EINVAL
\* exactly when the key's type is not Secret or its material is longer than
\* D's capacity, and then D is unchanged; otherwise it succeeds, D holds the
\* material and its length, D is exportable iff the key is (whatever D was
\* before); the key item is not modified.
C8_Export ==
    \A t \in Threads :
        (Exits(t, "export") /\ ditem[t] # NULL) =>
            LET k == keys[item[t]]
                d == dstore[ditem[t]]
                p == pre[t]
            IN /\ loc[t].ret \in {OK, EINVAL}
               /\ loc[t].ret = EINVAL <=>
                     \/ p.key.type # NCR_KEY_TYPE_SECRET
                     \/ p.key.size > p.data.max_data_size
               /\ loc[t].ret = EINVAL =>
                     d = [p.data EXCEPT !.refcnt = d.refcnt]
               /\ loc[t].ret = OK =>
                     /\ d.data_size = k.size
                     /\ Prefix(d.data, d.data_size) = Prefix(k.data, k.size)
                     /\ (NCR_DATA_FLAG_EXPORTABLE \in d.flags)
                            <=> (NCR_KEY_FLAG_EXPORTABLE \in k.flags)
               /\ Fields(k) = p.key

\* a key that is not exportable was exported into a data item that was
\* exportable before, and the data item no longer is
C8_Witness ==
    \E t \in Threads :
        /\ Exits(t, "export") /\ ditem[t] # NULL /\ loc[t].ret = OK
        /\ keys[item[t]].size > 0
        /\ NCR_DATA_FLAG_EXPORTABLE \in pre[t].data.flags
        /\ NCR_DATA_FLAG_EXPORTABLE \notin dstore[ditem[t]].flags

C10_ImportFromNonExportable ==
    \A t \in Threads :
        (Exits(t, "import") /\ loc[t].ret = OK
         /\ NCR_DATA_FLAG_EXPORTABLE \notin dstore[ditem[t]].flags)
            => NCR_KEY_FLAG_EXPORTABLE \notin keys[item[t]].flags

\* C11: import/export round trip: when a key whose last write was a
\* successful import of the byte string B (length <= MAX_KEY_SIZE) as a Secret
\* key is exported into a data item of capacity >= length(B), the export
\* succeeds and the destination holds exactly B, bytes and length.
C11_ImportExportRoundTrip ==
    \A t \in Threads :
        (/\ Exits(t, "export") /\ ditem[t] # NULL
         /\ keys[item[t]].by.op = "import"
         /\ Len(keys[item[t]].src) <= pre[t].data.max_data_size)
            => /\ loc[t].ret = OK
               /\ Len(keys[item[t]].src) <= MAX_KEY_SIZE
               /\ dstore[ditem[t]].data_size = Len(keys[item[t]].src)
               /\ Held(dstore[ditem[t]]) = keys[item[t]].src

\* bytes imported from one data item were exported into the other, which
\* they fill to a different length than it had
C11_Witness ==
    \E t \in Threads :
        /\ Exits(t, "export") /\ ditem[t] # NULL /\ loc[t].ret = OK
        /\ keys[item[t]].by.op = "import"
        /\ keys[item[t]].by.data # ditem[t]
        /\ Len(keys[item[t]].src) > 0
        /\ pre[t].data.data_size # Len(keys[item[t]].src)

\* the calls that borrow a key item by its handle
Borrowing == {"generate", "info", "export", "import"}
Returned(t, ops) == pc[t] = "idle" /\ call[t].op \in ops

\* C12: when generate, info, export or import has returned, with 0 or with
\* -EINVAL from any of its exits, it holds no key item and no data item, and
\* every reference count is what it was before the call: for the one caller
\* of this specification, 1 (the list's reference) on every key item, all of
\* them still linked, and 1 on every data item.
C12_BorrowsReleased ==
    \A t \in Threads :
        Returned(t, Borrowing) =>
            /\ ret[t] \in {OK, EINVAL}
            /\ item[t] = NULL /\ ditem[t] = NULL
            /\ \A k \in Slots : Live(k) => Linked(k) /\ keys[k].refcnt = 1
            /\ \A k \in Slots : ~Live(k) => keys[k].refcnt = 0
            /\ \A d \in DataIds : dstore[d].refcnt = 1

\* an import has failed after it borrowed the key and wrote a type that is
\* not Secret into it
C12_Witness ==
    \E t \in Threads, k \in Slots :
        /\ Returned(t, {"import"}) /\ ret[t] = EINVAL
        /\ Linked(k) /\ keys[k].algorithm = NCR_ALG_RSA

\* what a teardown step does to the registry
TeardownEffect ==
    LET idle == {k \in Slots : Linked(k) /\ Holders(k) = {}}
    IN /\ lst' = <<>>
       /\ limit_cnt' = limit_cnt - Cardinality(idle)
       /\ \A k \in Slots :
            Linked(k) =>
                IF k \in idle
                THEN keys'[k].st = "freed" /\ keys'[k].frees = 1
                ELSE /\ keys'[k].st = "live"
                     /\ keys'[k].refcnt = Cardinality(Holders(k))

\* C13: ncr_key_list_deinit leaves the registry empty, frees every item
\* nobody has borrowed and releases its limiter slot, and leaves a borrowed
\* item alive with only its borrowers' references; an unlinked item is then
\* freed by its last put, so every unlinked item is eventually freed, and
\* when no call is in flight every item that was unlinked has been freed
\* exactly once.
C13_Teardown ==
    /\ [][(\E t \in Threads : KeyListDeinit(t, Draining)) => TeardownEffect]_vars
    /\ []((\A t \in Threads : pc[t] = "idle") =>
            \A k \in Slots :
                (keys[k].st # "unused" /\ ~Linked(k)) =>
                    Freed(k) /\ keys[k].frees = 1)
    /\ \A k \in Slots : (Live(k) /\ ~Linked(k)) ~> Freed(k)

\* a teardown has returned while the other caller still holds an item it
\* borrowed before: the registry is empty and the item alive
C13_Witness ==
    \E t \in Threads, k \in Slots :
        /\ Returned(t, {"list_deinit"})
        /\ lst = <<>>
        /\ Live(k) /\ Holders(k) # {} /\ keys[k].refcnt = 1

\* the items linked in a list
Items(l) == {l[i] : i \in 1..Len(l)}

\* what ncr_key_deinit of handle desc by thread t does in this step
RemoveEffect(t, desc) ==
    LET k == FindKey(keys, lst, desc)
    IN /\ ret'[t] = OK
       /\ IF k = NULL
          THEN keys' = keys /\ lst' = lst /\ limit_cnt' = limit_cnt
          ELSE /\ Items(lst') = Items(lst) \ {k}
               /\ Len(lst') = Len(lst) - 1
               /\ keys'[k].refcnt = keys[k].refcnt - 1
               /\ \A j \in Slots \ {k} : keys'[j] = keys[j]
               /\ limit_cnt' = IF keys[k].refcnt = 1 THEN limit_cnt - 1
                                ELSE limit_cnt

\* C14: ncr_key_deinit of a handle that is not linked (never allocated, or
\* removed before) returns 0 and changes neither the list, nor any key item,
\* nor the limiter's count; of a linked handle it returns 0, unlinks that
\* item alone and drops one reference of it, and leaves the others as they
\* are.
C14_RemoveIdempotent ==
    [][\A t \in Threads :
         KeyDeinit(t, Concurrent) => RemoveEffect(t, uarg'[t].desc)]_vars

\* the same handle was removed twice, once by each caller: the second remove
\* found nothing
C14_Witness ==
    \E k \in Slots :
        /\ Freed(k) /\ removes = 2
        /\ \A t \in Threads :
            Returned(t, {"deinit"}) /\ ret[t] = OK /\ uarg[t].desc = keys[k].desc

\* C15: ncr_key_generate_pair, ncr_key_derive and ncr_key_get_public fail on
\* every call, with -EINVAL (the code's value for a call that is not
\* implemented), and leave the list, every key item with its refcount, the
\* limiter's count and the data items as they are.
C15_StubsFail ==
    [][\A t \in Threads :
         (\/ KeyGeneratePair(t, Concurrent)
          \/ KeyDerive(t, Concurrent)
          \/ KeyGetPublic(t, Concurrent))
            => /\ ret'[t] = EINVAL
               /\ UNCHANGED <<keys, lst, limit_cnt, dstore>>]_vars

\* one of the three calls has failed while the registry holds a Secret key,
\* whose handle is valid
C15_Witness ==
    \E t \in Threads, k \in Slots :
        /\ Returned(t, {"generate_pair", "derive", "get_public"})
        /\ ret[t] = EINVAL
        /\ Linked(k) /\ keys[k].type = NCR_KEY_TYPE_SECRET /\ keys[k].size > 0

\* C16: under any interleaving, every key item that is linked in the list
\* has refcnt >= 1, and its refcnt is 1 (the list's reference) plus the
\* number of lookups of it that have not been put yet.
C16_LinkedRefcount ==
    \A k \in Slots :
        Linked(k) =>
            /\ Live(k)
            /\ keys[k].refcnt >= 1
            /\ keys[k].refcnt = 1 + Cardinality(Holders(k))

\* both callers hold a lookup of the same linked item
C16_Witness ==
    \E k \in Slots :
        Linked(k) /\ Holders(k) = Threads /\ keys[k].refcnt = 1 + Cardinality(Threads)

C18_KeyedStaysKeyed ==
    \A t \in Threads :
        (/\ Exits(t, "export") /\ ditem[t] # NULL
         /\ keys[item[t]].keyed
         /\ dstore[ditem[t]].max_data_size >= MAX_KEY_SIZE)
            => loc[t].ret = OK

\* C19: however an export interleaves with generate and import calls on the
\* same handle, it never copies more bytes into a data item than the item
\* has room for, and every data item's length is at most its capacity
C19_ExportWithinCapacity ==
    /\ "data" \notin oob
    /\ \A d \in DataIds : dstore[d].data_size <= dstore[d].max_data_size

\* C20: key material that a generate or an import left in a key item whose
\* NCR_KEY_FLAG_EXPORTABLE is clear is never held by a data item whose
\* NCR_DATA_FLAG_EXPORTABLE is set when an export into that data item returns
C20_NoExportableCopy ==
    \A t \in Threads :
        (/\ Exits(t, "export") /\ ditem[t] # NULL /\ loc[t].ret = OK
         /\ dstore[ditem[t]].data_size > 0
         /\ dstore[ditem[t]].noexp)
            => NCR_DATA_FLAG_EXPORTABLE \notin dstore[ditem[t]].flags

====
